---- MODULE Spec2Model ----
(***************************************************************************)
(* Model of the user endpoints of hellerve/unterstrich (users/users.go):   *)
(* CreateUser, GetUsers, GetUser, GetMe, DeleteUser and UpdateUser over a  *)
(* users table, with the JSON binding, the bcrypt hashing and the gorm     *)
(* lookups the handlers perform.                                           *)
(***************************************************************************)
EXTENDS Integers, Sequences, FiniteSets, TLC

VARIABLES db, nextID, req, resp, pre

vars == <<db, nextID, req, resp, pre>>

(***************************************************************************)
(* Bounds and input domains.                                               *)
(***************************************************************************)
\* number of rows the model lets CreateUser insert
MaxUsers == 2

Usernames == {"amy", "bob"}
Emails == {"a@x.com", "b@x.com"}
Plaintexts == {"pw"}
Salts == {"s1"}
\* subjects a verified token can carry: the usernames that can be stored (a
\* token's user need not be stored) and the seeded staff user
Subjects == Usernames \cup {"root"}
\* the :id URL parameter, as the characters the router hands over
IdParams == {<<"1">>, <<"2">>, <<"a">>}

(***************************************************************************)
(* HTTP status codes used by the handlers.                                 *)
(***************************************************************************)
StatusOK == 200
StatusBadRequest == 400
StatusForbidden == 403
StatusNotFound == 404
StatusInternalServerError == 500

\* bcrypt cost passed to GenerateFromPassword
BcryptCost == 12

(***************************************************************************)
(* The User model.  Address, Social and Artworks are never set by any      *)
(* handler path and are left out.                                          *)
(***************************************************************************)
ZeroUser ==
  [ID |-> 0, Email |-> "", Password |-> "", Firstname |-> "", Lastname |-> "",
   Username |-> "", Artist |-> FALSE, Curator |-> FALSE, Admin |-> FALSE,
   Staff |-> FALSE]

\* the zero value of CreationUser
ZeroCreationUser ==
  [Email |-> "", Password |-> "", Username |-> "", Artist |-> FALSE,
   Curator |-> FALSE]

(***************************************************************************)
(* Go destinations handed to the JSON binder and to gorm: a nil pointer    *)
(* (var user *User), a pointer to a variable (&me), or a struct passed by  *)
(* value (db.First(other, id)).                                            *)
(***************************************************************************)
NilPtr(zero) == [kind |-> "nil", val |-> zero]
PtrTo(v) == [kind |-> "ptr", val |-> v]
ByValue(v) == [kind |-> "value", val |-> v]

(***************************************************************************)
(* bcrypt.GenerateFromPassword: a salted hash, or an error when no salt    *)
(* could be drawn.  The blob carries version, cost and salt in front of    *)
(* the digest, which stands for the one-way image of (salt, plaintext).    *)
(***************************************************************************)
CostString == IF BcryptCost = 12 THEN "12" ELSE "10"

Digest(salt, plaintext) == "H(" \o salt \o "," \o plaintext \o ")"

\* faulty variant: the hash step is skipped and the plaintext handed back
GenerateFromPassword_Plain(plaintext, entropy) ==
  [err |-> FALSE, hash |-> plaintext]

GenerateFromPassword(plaintext, entropy) ==
  IF entropy.ok
    THEN [err |-> FALSE,
          hash |-> "$2a$" \o CostString \o "$" \o entropy.salt
                     \o Digest(entropy.salt, plaintext)]
    ELSE [err |-> TRUE, hash |-> ""]

Entropies == [ok : {TRUE}, salt : Salts] \cup {[ok |-> FALSE, salt |-> ""]}

\* every blob the hasher can produce
HashBlobs ==
  {"$2a$" \o CostString \o "$" \o salt \o Digest(salt, p) : p \in Plaintexts, salt \in Salts}

(***************************************************************************)
(* Request bodies.  A body is a JSON object (json = TRUE) carrying the     *)
(* keys below, or text that is not JSON.  An absent key and a key holding  *)
(* the zero value decode alike, so absence is the zero value.              *)
(***************************************************************************)
\* complete signup bodies; is_artist is varied on one username/email pair
FullCreateBodies ==
  {b \in [json : {TRUE}, id : {0}, email : Emails, password : Plaintexts,
          username : Usernames, is_artist : BOOLEAN, is_curator : {FALSE},
          is_staff : BOOLEAN, is_admin : BOOLEAN] :
     b.is_artist => (b.username = "amy" /\ b.email = "a@x.com")}

\* signup bodies lacking one required key
PartialCreateBodies ==
  LET full == [json |-> TRUE, id |-> 0, email |-> "a@x.com", password |-> "pw",
               username |-> "amy", is_artist |-> FALSE, is_curator |-> FALSE,
               is_staff |-> FALSE, is_admin |-> FALSE]
  IN {[full EXCEPT !.email = ""], [full EXCEPT !.password = ""],
      [full EXCEPT !.username = ""]}

CreateBodies == FullCreateBodies \cup PartialCreateBodies

UpdateBodies ==
  [json : {TRUE}, id : 0..MaxUsers, email : {"a@x.com"}, password : {""},
   username : {"amy"}, is_artist : {TRUE}, is_curator : {FALSE},
   is_staff : BOOLEAN, is_admin : BOOLEAN]

MalformedBody ==
  [json |-> FALSE, id |-> 0, email |-> "", password |-> "", username |-> "",
   is_artist |-> FALSE, is_curator |-> FALSE, is_staff |-> FALSE,
   is_admin |-> FALSE]

\* a request without a body (GET, DELETE)
NoBody == MalformedBody

(***************************************************************************)
(* c.ShouldBindJSON: encoding/json decodes the body into the destination   *)
(* by the struct's json tags, then the `binding:"required"` fields are     *)
(* validated.  Decoding fails on text that is not JSON and on any          *)
(* destination that is not a non-nil pointer.                              *)
(***************************************************************************)
DecodeFails(dest, body) == ~body.json \/ dest.kind # "ptr"

\* into a CreationUser: email, password, username, is_artist, is_curator;
\* every other key of the body is ignored
BindCreationUser(dest, body) ==
  IF DecodeFails(dest, body) THEN [err |-> TRUE, val |-> dest.val]
  ELSE LET v == [Email |-> body.email, Password |-> body.password,
                 Username |-> body.username, Artist |-> body.is_artist,
                 Curator |-> body.is_curator]
       IN [err |-> v.Email = "" \/ v.Password = "" \/ v.Username = "", val |-> v]

\* into a User: Password and Admin are tagged json:"-" and never decoded
BindUser(dest, body) ==
  IF DecodeFails(dest, body) THEN [err |-> TRUE, val |-> dest.val]
  ELSE LET v == [dest.val EXCEPT !.ID = body.id, !.Email = body.email,
                                 !.Username = body.username,
                                 !.Artist = body.is_artist,
                                 !.Curator = body.is_curator,
                                 !.Staff = body.is_staff]
       IN [err |-> v.Email = "" \/ v.Username = "", val |-> v]

(***************************************************************************)
(* c.JSON of a User: the fields whose json tag is not "-".                 *)
(***************************************************************************)
\* faulty variant: Password serialized like any other field
ToJSON_WithPassword(u) ==
  [id |-> u.ID, email |-> u.Email, password |-> u.Password,
   firstname |-> u.Firstname, lastname |-> u.Lastname, username |-> u.Username,
   is_artist |-> u.Artist, is_curator |-> u.Curator, is_staff |-> u.Staff]

ToJSON(u) ==
  [id |-> u.ID, email |-> u.Email, firstname |-> u.Firstname,
   lastname |-> u.Lastname, username |-> u.Username, is_artist |-> u.Artist,
   is_curator |-> u.Curator, is_staff |-> u.Staff]

\* a response: status, the text of c.String, the objects of c.JSON
StringResp(status, text) == [status |-> status, text |-> text, json |-> {}]
JSONResp(status, users) == [status |-> status, text |-> "", json |-> {ToJSON(u) : u \in users}]
NoResp == [status |-> 0, text |-> "", json |-> {}]

(***************************************************************************)
(* strconv.Atoi on the :id parameter.                                      *)
(***************************************************************************)
DigitValue(c) ==
  CASE c = "0" -> 0 [] c = "1" -> 1 [] c = "2" -> 2 [] c = "3" -> 3 [] c = "4" -> 4
    [] c = "5" -> 5 [] c = "6" -> 6 [] c = "7" -> 7 [] c = "8" -> 8 [] c = "9" -> 9
    [] OTHER -> -1

RECURSIVE AtoiDigits(_, _)
AtoiDigits(s, acc) ==
  IF s = <<>> THEN acc ELSE AtoiDigits(Tail(s), acc * 10 + DigitValue(Head(s)))

Atoi(s) ==
  IF s = <<>> \/ \E i \in 1..Len(s) : DigitValue(s[i]) < 0
    THEN [err |-> TRUE, n |-> 0]
    ELSE [err |-> FALSE, n |-> AtoiDigits(s, 0)]

(***************************************************************************)
(* gorm on the users table (a set of rows with distinct IDs).              *)
(***************************************************************************)
MinID(rows) == CHOOSE r \in rows : \A q \in rows : r.ID <= q.ID

\* db.NewRecord: the primary key is blank
NewRecord(user) == user.ID = 0

\* db.First(dest, id): fills a pointer destination with the row of that id;
\* a nil pointer or a struct passed by value cannot be filled
First(dest, store, id) ==
  LET rows == {r \in store : r.ID = id}
  IN IF dest.kind = "ptr" /\ rows # {} THEN PtrTo(MinID(rows)) ELSE dest

\* db.Where("username = ?", subject).First(dest)
FirstWhereUsername(dest, store, subject) ==
  LET rows == {r \in store : r.Username = subject}
  IN IF dest.kind = "ptr" /\ rows # {} THEN PtrTo(MinID(rows)) ELSE dest

\* db.Create: inserts the row under the next auto-increment id
Create(store, id, user) == store \cup {[user EXCEPT !.ID = id]}

\* db.Delete: removes the row with the record's primary key
Delete(store, user) == {r \in store : r.ID # user.ID}

\* db.Save: rewrites every column of the row with the record's primary key,
\* inserting the record when no such row exists
Save(store, user) == {r \in store : r.ID # user.ID} \cup {user}

(***************************************************************************)
(* The handlers.  Each yields the table, the auto-increment counter and    *)
(* the response it leaves behind.                                          *)
(***************************************************************************)
Outcome(store, next, response) == [db |-> store, nextID |-> next, resp |-> response]

\* GET /users/
GetUsers(store, next) == Outcome(store, next, JSONResp(StatusOK, store))

\* GET /users/:id
GetUser(store, next, idParam) ==
  LET id == Atoi(idParam)
      user == First(NilPtr(ZeroUser), store, id.n)
  IN IF id.err
       THEN Outcome(store, next, StringResp(StatusBadRequest, "ID must be numerical: "))
     ELSE IF user.kind = "nil"
       THEN Outcome(store, next, StringResp(StatusNotFound, "Invalid ID: not found"))
     ELSE Outcome(store, next, JSONResp(StatusOK, {user.val}))

\* GET /me
GetMe(store, next, subject) ==
  LET me == FirstWhereUsername(PtrTo(ZeroUser), store, subject).val
  IN Outcome(store, next, JSONResp(StatusOK, {me}))

\* POST /users
CreateUser(store, next, body, entropy) ==
  LET bound == BindCreationUser(PtrTo(ZeroCreationUser), body)
      jsonuser == bound.val
      user == [ZeroUser EXCEPT !.Email = jsonuser.Email,
                               !.Username = jsonuser.Username,
                               !.Password = jsonuser.Password,
                               !.Artist = jsonuser.Artist,
                               !.Curator = jsonuser.Curator]
      pw == GenerateFromPassword(user.Password, entropy)
      hashed == [user EXCEPT !.Password = pw.hash]
  IN IF bound.err
       THEN Outcome(store, next, StringResp(StatusBadRequest, "Invalid body: "))
     ELSE IF ~NewRecord(user)
       THEN Outcome(store, next, StringResp(StatusBadRequest, "User already present: "))
     ELSE IF user.Staff \/ user.Admin
       THEN Outcome(store, next, StringResp(StatusForbidden, "Cannot create admin user"))
     ELSE IF pw.err
       THEN Outcome(store, next, StringResp(StatusInternalServerError, ""))
     ELSE Outcome(Create(store, next, hashed), next + 1,
                  JSONResp(StatusOK, {[hashed EXCEPT !.ID = next]}))

\* DELETE /users/:id
DeleteUser(store, next, subject, idParam) ==
  LET id == Atoi(idParam)
      user == First(NilPtr(ZeroUser), store, id.n)
      me == FirstWhereUsername(PtrTo(ZeroUser), store, subject).val
  IN IF id.err
       THEN Outcome(store, next, StringResp(StatusBadRequest, "Invalid ID: must be numerical"))
     ELSE IF user.kind = "nil"
       THEN Outcome(store, next, StringResp(StatusNotFound, "Not found"))
     ELSE IF user.val.ID # me.ID
       THEN Outcome(store, next, StringResp(StatusForbidden, "Cannot alter foreign user"))
     ELSE Outcome(Delete(store, user.val), next, StringResp(StatusOK, ""))

\* faulty variant of PUT /users/:id: the body is bound into an allocated User
\* and a staff or admin principal may rewrite the row the URL names
UpdateUser_StaffOverride(store, next, subject, idParam, body) ==
  LET id == Atoi(idParam)
      bound == BindUser(PtrTo(ZeroUser), body)
      user == bound.val
      other == First(PtrTo(ZeroUser), store, id.n).val
      me == FirstWhereUsername(PtrTo(ZeroUser), store, subject).val
  IN IF id.err
       THEN Outcome(store, next, StringResp(StatusBadRequest, "Invalid ID: must be numerical"))
     ELSE IF bound.err
       THEN Outcome(store, next, StringResp(StatusBadRequest, "Invalid body: "))
     ELSE IF NewRecord(user)
       THEN Outcome(store, next, StringResp(StatusNotFound, "Not found"))
     ELSE IF (user.Staff /\ ~other.Staff) \/ (user.Admin /\ ~other.Admin)
       THEN Outcome(store, next, StringResp(StatusForbidden, "Cannot make user admin"))
     ELSE IF user.ID # me.ID /\ ~(me.Staff \/ me.Admin)
       THEN Outcome(store, next, StringResp(StatusForbidden, "Cannot alter foreign user"))
     ELSE Outcome(Save(store, [user EXCEPT !.ID = id.n]), next,
                  JSONResp(StatusOK, {[user EXCEPT !.ID = id.n]}))

\* PUT /users/:id
UpdateUser(store, next, subject, idParam, body) ==
  LET id == Atoi(idParam)
      bound == BindUser(NilPtr(ZeroUser), body)
      user == bound.val
      other == First(ByValue(ZeroUser), store, id.n).val
      me == FirstWhereUsername(PtrTo(ZeroUser), store, subject).val
  IN IF id.err
       THEN Outcome(store, next, StringResp(StatusBadRequest, "Invalid ID: must be numerical"))
     ELSE IF bound.err
       THEN Outcome(store, next, StringResp(StatusBadRequest, "Invalid body: "))
     ELSE IF NewRecord(user)
       THEN Outcome(store, next, StringResp(StatusNotFound, "Not found"))
     ELSE IF (user.Staff /\ ~other.Staff) \/ (user.Admin /\ ~other.Admin)
       THEN Outcome(store, next, StringResp(StatusForbidden, "Cannot make user admin"))
     ELSE IF user.ID # me.ID
       THEN Outcome(store, next, StringResp(StatusForbidden, "Cannot alter foreign user"))
     ELSE Outcome(Save(store, user), next, JSONResp(StatusOK, {user}))

(***************************************************************************)
(* The state machine.  db is the users table, nextID its auto-increment    *)
(* counter, req the request last served, resp its response and pre the     *)
(* table as that request found it.                                         *)
(***************************************************************************)
\* a staff user present in the database the server is started on
RootUser ==
  [ZeroUser EXCEPT !.ID = 1, !.Email = "root@x.com", !.Username = "root",
                   !.Password = GenerateFromPassword("pw", [ok |-> TRUE, salt |-> "s1"]).hash,
                   !.Staff = TRUE, !.Admin = TRUE]

\* the tables Initialize can be handed: empty, or holding the staff user
Seeds == {{}, {RootUser}}

Request(op, subject, idParam, body, entropy) ==
  [op |-> op, subject |-> subject, idParam |-> idParam, body |-> body,
   entropy |-> entropy]

NoEntropy == [ok |-> FALSE, salt |-> ""]

Serve(request, out) ==
  /\ req' = request
  /\ pre' = db
  /\ db' = out.db
  /\ nextID' = out.nextID
  /\ resp' = out.resp

Init ==
  /\ db \in Seeds
  /\ nextID = Cardinality(db) + 1
  /\ req = Request("none", "", <<>>, NoBody, NoEntropy)
  /\ resp = NoResp
  /\ pre = db

\* POST /users is routed without the auth middleware: the caller may or may
\* not carry a token
CreateUserReq ==
  /\ nextID <= MaxUsers
  /\ \E subject \in {"", "amy"}, body \in CreateBodies \cup {MalformedBody}, entropy \in Entropies :
       Serve(Request("CreateUser", subject, <<>>, body, entropy),
             CreateUser(db, nextID, body, entropy))

GetUsersReq ==
  \E subject \in Subjects :
    Serve(Request("GetUsers", subject, <<>>, NoBody, NoEntropy), GetUsers(db, nextID))

GetUserReq ==
  \E subject \in Subjects, idParam \in IdParams :
    Serve(Request("GetUser", subject, idParam, NoBody, NoEntropy),
          GetUser(db, nextID, idParam))

GetMeReq ==
  \E subject \in Subjects :
    Serve(Request("GetMe", subject, <<>>, NoBody, NoEntropy), GetMe(db, nextID, subject))

DeleteUserReq ==
  \E subject \in Subjects, idParam \in IdParams :
    Serve(Request("DeleteUser", subject, idParam, NoBody, NoEntropy),
          DeleteUser(db, nextID, subject, idParam))

UpdateUserReq ==
  \E subject \in Subjects, idParam \in IdParams, body \in UpdateBodies \cup {MalformedBody} :
    Serve(Request("UpdateUser", subject, idParam, body, NoEntropy),
          UpdateUser(db, nextID, subject, idParam, body))

Next ==
  \/ CreateUserReq
  \/ GetUsersReq
  \/ GetUserReq
  \/ GetMeReq
  \/ DeleteUserReq
  \/ UpdateUserReq

Spec == Init /\ [][Next]_vars

(***************************************************************************)
(* Vocabulary of the properties: the request last served, read against the *)
(* table it found (pre) and the table it left (db).                        *)
(***************************************************************************)
\* the principal the token's subject resolved to (ID 0: no stored user)
Principal == FirstWhereUsername(PtrTo(ZeroUser), pre, req.subject).val

\* the id the URL names
TargetID == Atoi(req.idParam).n

\* the rows of the URL's id, before and after
TargetBefore == {r \in pre : r.ID = TargetID}
TargetAfter == {r \in db : r.ID = TargetID}

\* a structurally valid request on an existing target
OnExistingTarget(op) ==
  /\ req.op = op
  /\ ~Atoi(req.idParam).err
  /\ TargetBefore # {}

\* an UpdateUser request with a numeric id and a complete JSON body
ValidUpdate ==
  /\ req.op = "UpdateUser"
  /\ ~Atoi(req.idParam).err
  /\ req.body.json /\ req.body.email # "" /\ req.body.username # ""

\* a CreateUser request with a complete JSON body
ValidCreate ==
  /\ req.op = "CreateUser"
  /\ req.body.json
  /\ req.body.email # "" /\ req.body.username # "" /\ req.body.password # ""

\* the forbidden outcome
Denied == resp.status = StatusForbidden

(***************************************************************************)
(* C1: an UpdateUser request whose URL id is not the principal's id, by a  *)
(* stored principal neither staff nor admin, is denied (forbidden) and     *)
(* leaves the target's stored record as it was, whatever the body carries. *)
(***************************************************************************)
C1_ForeignUpdateDenied ==
  (/\ ValidUpdate
   /\ TargetBefore # {}
   /\ Principal.ID # 0 /\ Principal.ID # TargetID
   /\ ~Principal.Staff /\ ~Principal.Admin)
  => (Denied /\ TargetAfter = TargetBefore)

(***************************************************************************)
(* C2: an UpdateUser request by which a stored principal would raise its   *)
(* own is_staff or is_admin (the URL or the body naming the principal) is  *)
(* denied with the forbidden outcome and leaves the principal's flags as   *)
(* they were.                                                              *)
(***************************************************************************)
C2_SelfGrantDenied ==
  (/\ ValidUpdate
   /\ Principal.ID # 0
   /\ (TargetID = Principal.ID \/ req.body.id = Principal.ID)
   /\ \/ (req.body.is_staff /\ ~Principal.Staff)
      \/ (req.body.is_admin /\ ~Principal.Admin))
  => /\ Denied
     /\ \A r \in db : r.ID = Principal.ID =>
          (r.Staff = Principal.Staff /\ r.Admin = Principal.Admin)

(***************************************************************************)
(* C3: a CreateUser request whose body sets is_staff or is_admin ends      *)
(* forbidden and stores no record, with or without a token (the body is    *)
(* complete and the hasher available, so no other error is in the way).    *)
(***************************************************************************)
C3_PrivilegedCreateDenied ==
  (ValidCreate /\ req.entropy.ok /\ (req.body.is_staff \/ req.body.is_admin))
  => (Denied /\ db = pre)

(***************************************************************************)
(* C4: a DeleteUser request on a stored user removes the row only when the *)
(* URL id is the principal's id; from any other principal (staff, admin or *)
(* unresolved) it is denied and the row stays.                             *)
(***************************************************************************)
C4_DeleteOnlySelf ==
  OnExistingTarget("DeleteUser")
  => /\ (db # pre => Principal.ID = TargetID)
     /\ (Principal.ID # TargetID => (Denied /\ TargetAfter = TargetBefore))

(***************************************************************************)
(* C5: no response carries a password: no object of a JSON response has a  *)
(* password key, and no string of a response is a stored hash or the       *)
(* plaintext the request submitted.                                        *)
(***************************************************************************)
Secrets == ({r.Password : r \in db \cup pre} \cup {req.body.password}) \ {""}

StringKeys == {"email", "password", "firstname", "lastname", "username"}

C5_NoPasswordInResponse ==
  /\ resp.text \notin Secrets
  /\ \A o \in resp.json :
       /\ "password" \notin DOMAIN o
       /\ \A k \in DOMAIN o \cap StringKeys : o[k] \notin Secrets

\* a signup has just answered with the record it stored under a hash
C5_Witness ==
  /\ ValidCreate
  /\ resp.status = StatusOK
  /\ \E r \in db \ pre : ToJSON(r) \in resp.json /\ r.Password \in Secrets

(***************************************************************************)
(* C6: every stored password is a blob of the hasher, never empty and      *)
(* never a plaintext; a CreateUser request whose hashing fails ends in an  *)
(* error and writes nothing.                                               *)
(***************************************************************************)
C6_StoredPasswordIsHash ==
  /\ \A r \in db :
       /\ r.Password \in HashBlobs
       /\ r.Password # ""
       /\ r.Password \notin Plaintexts
       /\ r.Password # req.body.password
  /\ (ValidCreate /\ ~req.entropy.ok) =>
       (resp.status = StatusInternalServerError /\ db = pre)

\* a signup stored a row whose password is the hash of the submitted one
C6_Witness ==
  /\ ValidCreate
  /\ resp.status = StatusOK
  /\ \E r \in db \ pre :
       r.Password = GenerateFromPassword(req.body.password, req.entropy).hash

(***************************************************************************)
(* C7: no two stored users share a username or an email; a CreateUser      *)
(* request whose username or email is already stored does not succeed and  *)
(* writes nothing.                                                         *)
(***************************************************************************)
C7_UniqueUsernameEmail ==
  /\ \A r, q \in db :
       r.ID # q.ID => (r.Username # q.Username /\ r.Email # q.Email)
  /\ (/\ ValidCreate
      /\ \E r \in pre : r.Username = req.body.username \/ r.Email = req.body.email)
     => (resp.status # StatusOK /\ db = pre)

(***************************************************************************)
(* C9 as stated: an UpdateUser request by a staff or admin principal on    *)
(* another user's record that raises none of that user's privileged flags  *)
(* succeeds and the target row then holds the body's values.               *)
(***************************************************************************)
StaffForeignUpdate ==
  /\ ValidUpdate
  /\ req.body.id = TargetID
  /\ TargetBefore # {}
  /\ Principal.ID # 0 /\ Principal.ID # TargetID
  /\ (Principal.Staff \/ Principal.Admin)
  /\ \A t \in TargetBefore :
       (req.body.is_staff => t.Staff) /\ (req.body.is_admin => t.Admin)

C10_IdentityDenialFirst ==
  (/\ ValidUpdate
   /\ req.body.id = TargetID
   /\ TargetBefore # {}
   /\ Principal.ID # 0 /\ Principal.ID # TargetID)
  => (Denied /\ resp.text = "Cannot alter foreign user")

====
